---- MODULE Spec2Model ----
(***************************************************************************)
(* Orbit Tasks (TODO WEB/script.js): the task collection, its persistence  *)
(* in localStorage, the rendered list and the stats, as a state machine    *)
(* with one action per event handler.                                      *)
(*                                                                         *)
(* Strings are sequences of one-character strings, so that trim,           *)
(* JSON.stringify, JSON.parse and escapeHtml are computed character by     *)
(* character.                                                              *)
(***************************************************************************)
EXTENDS Integers, Sequences, FiniteSets, TLC

\* ------------------------------------------------------------------ bounds
MaxTasks == 2      \* addTask is not taken beyond this many tasks
MaxClock == 1      \* last value of the millisecond clock
TicksPerDay == 1   \* clock ticks per calendar day (scaled down)

\* What a user types into the task input or an edit input: nothing, blanks
\* only, a text with blanks around it, and a text with a blank inside and
\* the two characters JSON must escape.
Inputs ==
    {<<>>,
     <<" ", " ">>,
     <<" ", "a", " ">>,
     <<"\"", " ", "\\">>}

\* ----------------------------------------------------------------- strings
RECURSIVE trimStart(_)
trimStart(s) ==
    IF s # <<>> /\ Head(s) = " " THEN trimStart(Tail(s)) ELSE s

RECURSIVE trimEnd(_)
trimEnd(s) ==
    IF s # <<>> /\ s[Len(s)] = " " THEN trimEnd(SubSeq(s, 1, Len(s) - 1)) ELSE s

\* (mutant) the input is taken as typed
untrimmed(s) == s

\* String.prototype.trim
trim(s) == trimEnd(trimStart(s))

Digits == <<"0", "1", "2", "3", "4", "5", "6", "7", "8", "9">>

DigitSet == {Digits[i] : i \in 1..10}

DigitValue(c) == (CHOOSE i \in 1..10 : Digits[i] = c) - 1

\* Number -> decimal string
RECURSIVE NumberToString(_)
NumberToString(n) ==
    IF n < 10 THEN <<Digits[n + 1]>>
    ELSE NumberToString(n \div 10) \o <<Digits[(n % 10) + 1]>>

\* new Date().toLocaleDateString(): the calendar day of the clock reading
toLocaleDateString(t) == NumberToString(t \div TicksPerDay)

\* escapeHtml: the serialization of a text node escapes &, < and >
EscapeChar(c) ==
    CASE c = "&" -> <<"&", "a", "m", "p", ";">>
      [] c = "<" -> <<"&", "l", "t", ";">>
      [] c = ">" -> <<"&", "g", "t", ";">>
      [] OTHER -> <<c>>

RECURSIVE escapeHtml(_)
escapeHtml(text) ==
    IF text = <<>> THEN <<>> ELSE EscapeChar(Head(text)) \o escapeHtml(Tail(text))

\* -------------------------------------------------------------------- JSON
KeyId == <<"i", "d">>

KeyText == <<"t", "e", "x", "t">>

KeyCompleted == <<"c", "o", "m", "p", "l", "e", "t", "e", "d">>

KeyCreatedAt == <<"c", "r", "e", "a", "t", "e", "d", "A", "t">>

\* A string inside a JSON string literal: " and \ get a backslash before them.
RECURSIVE JSONescape(_)
JSONescape(s) ==
    IF s = <<>> THEN <<>>
    ELSE (IF Head(s) \in {"\"", "\\"} THEN <<"\\", Head(s)>> ELSE <<Head(s)>>)
         \o JSONescape(Tail(s))

JSONquote(s) == <<"\"">> \o JSONescape(s) \o <<"\"">>

JSONboolean(b) == IF b THEN <<"t", "r", "u", "e">> ELSE <<"f", "a", "l", "s", "e">>

\* The text before each property value of a task object; the properties come
\* in the order addTask created them.
BeforeId == <<"{">> \o JSONquote(KeyId) \o <<":">>

BeforeText == <<",">> \o JSONquote(KeyText) \o <<":">>

BeforeCompleted == <<",">> \o JSONquote(KeyCompleted) \o <<":">>

BeforeCreatedAt == <<",">> \o JSONquote(KeyCreatedAt) \o <<":">>

\* One task object
StringifyTask(task) ==
    BeforeId \o NumberToString(task.id)
    \o BeforeText \o JSONquote(task.text)
    \o BeforeCompleted \o JSONboolean(task.completed)
    \o BeforeCreatedAt \o JSONquote(task.createdAt)
    \o <<"}">>

RECURSIVE StringifyElements(_)
StringifyElements(ts) ==
    IF ts = <<>> THEN <<>>
    ELSE IF Len(ts) = 1 THEN StringifyTask(ts[1])
    ELSE StringifyTask(ts[1]) \o <<",">> \o StringifyElements(Tail(ts))

\* JSON.stringify(tasks)
JSONstringify(ts) == <<"[">> \o StringifyElements(ts) \o <<"]">>

\* (mutant) the backslash of an escape is kept in the string read
RECURSIVE ParseCharsKeepingEscapes(_, _, _)
ParseCharsKeepingEscapes(s, i, acc) ==
    IF s[i] = "\"" THEN [val |-> acc, next |-> i + 1]
    ELSE IF s[i] = "\\" THEN ParseCharsKeepingEscapes(s, i + 2, acc \o <<s[i], s[i + 1]>>)
    ELSE ParseCharsKeepingEscapes(s, i + 1, Append(acc, s[i]))

\* The parsers return [val |-> the value read, next |-> the position after it].
\* A string literal's characters, from position i (after the opening quote).
RECURSIVE ParseChars(_, _, _)
ParseChars(s, i, acc) ==
    IF s[i] = "\"" THEN [val |-> acc, next |-> i + 1]
    ELSE IF s[i] = "\\" THEN ParseChars(s, i + 2, Append(acc, s[i + 1]))
    ELSE ParseChars(s, i + 1, Append(acc, s[i]))

RECURSIVE ParseDigits(_, _, _)
ParseDigits(s, i, acc) ==
    IF i <= Len(s) /\ s[i] \in DigitSet
    THEN ParseDigits(s, i + 1, 10 * acc + DigitValue(s[i]))
    ELSE [val |-> acc, next |-> i]

\* A property value: a string, true, false or a number.
ParseValue(s, i) ==
    CASE s[i] = "\"" -> ParseChars(s, i + 1, <<>>)
      [] s[i] = "t" -> [val |-> TRUE, next |-> i + 4]
      [] s[i] = "f" -> [val |-> FALSE, next |-> i + 5]
      [] OTHER -> ParseDigits(s, i, 0)

\* The members of an object, from position i (after the opening brace), as a
\* function from property names to values; a repeated name keeps the last value.
RECURSIVE ParseMembers(_, _, _)
ParseMembers(s, i, acc) ==
    IF s[i] = "}" THEN [val |-> acc, next |-> i + 1]
    ELSE IF s[i] = "," THEN ParseMembers(s, i + 1, acc)
    ELSE LET key == ParseChars(s, i + 1, <<>>)
             value == ParseValue(s, key.next + 1)
         IN ParseMembers(s, value.next, (key.val :> value.val) @@ acc)

\* The object JSON.parse builds, as a task record.
ObjectToTask(obj) ==
    [id |-> obj[KeyId], text |-> obj[KeyText],
     completed |-> obj[KeyCompleted], createdAt |-> obj[KeyCreatedAt]]

RECURSIVE ParseElements(_, _, _)
ParseElements(s, i, acc) ==
    IF s[i] = "]" THEN acc
    ELSE IF s[i] = "," THEN ParseElements(s, i + 1, acc)
    ELSE LET members == ParseMembers(s, i + 1, <<>>)
         IN ParseElements(s, members.next, Append(acc, ObjectToTask(members.val)))

\* JSON.parse(savedTasks), for the text JSON.stringify(tasks) wrote
JSONparse(s) == ParseElements(s, 2, <<>>)

\* ------------------------------------------------------------------- state
VARIABLES
    tasks,          \* the array the global `tasks` is bound to (newest first)
    tasksRef,       \* which array object `tasks` is bound to
    currentFilter,  \* "all", "active" or "completed"
    localStorage,   \* the entries orbitTasks and orbitTheme
    taskList,       \* the children of #taskList: task rows or one empty-state
    itemsLeftLabel, \* #itemsLeft
    progress,       \* the percentage shown by #progressBar and #progressText
    bodyTheme,      \* body[data-theme]
    themeActive,    \* the theme buttons that carry the class `active`
    filterActive,   \* the filter buttons that carry the class `active`
    phase,          \* "loading" until DOMContentLoaded has run, then "ready"
    clock           \* the last reading of the millisecond clock (Date.now())

vars == <<tasks, tasksRef, currentFilter, localStorage, taskList, itemsLeftLabel,
          progress, bodyTheme, themeActive, filterActive, phase, clock>>

dom == <<taskList, itemsLeftLabel, progress>>

chrome == <<bodyTheme, themeActive, filterActive>>

Filters == {"all", "active", "completed"}

\* The page as index.html delivers it, before any script has rendered.
IndexHtml ==
    [taskList |-> <<>>,
     itemsLeftLabel |-> [count |-> 0, noun |-> "items"],
     progress |-> 0,
     bodyTheme |-> "",
     themeBtns |-> <<"ocean", "sunset">>,
     themeActive |-> {},
     filterActive |-> {"all"}]

\* Array objects: all that matters of one is whether it is the one before.
Refs == {"array1", "array2"}

\* A newly allocated array is not the object `tasks` was bound to.
NewArray(ref) == CHOOSE r \in Refs : r # ref

NoEntry(empty) == [present |-> FALSE, value |-> empty]

Entry(v) == [present |-> TRUE, value |-> v]

\* ------------------------------------------------------------------ Number
\* updateStats computes with Numbers: binary64 values, whose significand has
\* Precision binary digits and whose operations round the exact result to
\* the nearest such value, an exact half to the even significand. A Number
\* is modelled as [m, e]: the digits m of its significand, the highest
\* first, and the exponent e of the lowest digit; its value is m * 2^e. The
\* Number 0 has the significand of zeros.
Precision == 53

\* The most tasks whose statistics are computed.
MaxStatsTasks == 40

\* 2^n
RECURSIVE Pow2(_)
Pow2(n) == IF n = 0 THEN 1 ELSE 2 * Pow2(n - 1)

\* 2^n modulo m, by repeated squaring
RECURSIVE Pow2Mod(_, _)
Pow2Mod(n, m) ==
    IF n = 0 THEN 1 % m
    ELSE LET h == Pow2Mod(n \div 2, m)
         IN (h * h * (IF n % 2 = 1 THEN 2 ELSE 1)) % m

Reverse(s) == [i \in 1..Len(s) |-> s[Len(s) + 1 - i]]

\* The integer whose binary digits are bits, the highest first.
RECURSIVE BitsValue(_)
BitsValue(bits) ==
    IF Len(bits) = 0 THEN 0
    ELSE IF Len(bits) = 1 THEN bits[1]
    ELSE LET h == Len(bits) \div 2
         IN BitsValue(SubSeq(bits, 1, h)) * Pow2(Len(bits) - h)
            + BitsValue(SubSeq(bits, h + 1, Len(bits)))

\* bits + 1: the lowest 0 becomes 1 and the 1s below it become 0
Increment(bits) ==
    LET n    == Len(bits)
        ones == Cardinality({i \in 1..n : \A j \in i..n : bits[j] = 1})
    IN IF ones = n THEN <<1>> \o [i \in 1..n |-> 0]
       ELSE [i \in 1..n |-> IF i < n - ones THEN bits[i]
                            ELSE IF i = n - ones THEN 1 ELSE 0]

\* The Number nearest to bits * 2^e (plus less than one unit of the lowest
\* digit when `inexact`): the digits beyond Precision are dropped, and the
\* significand is raised by one when they amount to more than half a unit of
\* its lowest digit, or to exactly half and that digit is odd.
RoundToPrecision(bits, e, inexact) ==
    LET kept    == SubSeq(bits, 1, Precision)
        dropped == SubSeq(bits, Precision + 1, Len(bits))
        guard   == dropped # <<>> /\ dropped[1] = 1
        sticky  == inexact \/ \E i \in 2..Len(dropped) : dropped[i] = 1
        up      == guard /\ (sticky \/ kept[Precision] = 1)
        sum     == IF up THEN Increment(kept) ELSE kept
        carry   == Len(sum) - Precision
    IN [m |-> SubSeq(sum, 1, Precision), e |-> e + Len(dropped) + carry]

Zero == [m |-> [i \in 1..Precision |-> 0], e |-> 1 - Precision]

\* How often c doubles before it reaches t, for 0 < c <= t.
RECURSIVE Normalise(_, _)
Normalise(c, t) == IF c >= t THEN 0 ELSE 1 + Normalise(2 * c, t)

\* Long division of r by t, for r < 2 * t: a digit is 1 when the remainder
\* has reached t, and the remainder less t times the digit is doubled for
\* the next digit. Before digit i the remainder is r * 2^(i - 1) modulo 2 * t.
QuotientRemainder(r, t, i) == (r * Pow2Mod(i - 1, 2 * t)) % (2 * t)

\* The first n binary digits of r / t.
QuotientDigits(r, t, n) ==
    [i \in 1..n |-> IF QuotientRemainder(r, t, i) >= t THEN 1 ELSE 0]

\* completed / total for integers 0 <= c <= t, 0 < t
Divide(c, t) ==
    IF c = 0 THEN Zero
    ELSE LET s == Normalise(c, t)
             r == c * Pow2(s)
         IN RoundToPrecision(QuotientDigits(r, t, Precision + 1),
                             0 - s - Precision,
                             QuotientRemainder(r, t, Precision + 2) # 0)

\* The binary digits of n, the lowest first.
RECURSIVE LowToHigh(_)
LowToHigh(n) == IF n = 0 THEN <<>> ELSE <<n % 2>> \o LowToHigh(n \div 2)

\* low * k + carry for the digits `low`, the lowest first: as many digits as
\* `low` has, the lowest first, and what is carried beyond them. The lower
\* half is multiplied first and its carry goes into the upper half.
RECURSIVE TimesDigits(_, _, _)
TimesDigits(low, k, carry) ==
    IF Len(low) = 1
    THEN [digits |-> <<(low[1] * k + carry) % 2>>,
          carry |-> (low[1] * k + carry) \div 2]
    ELSE LET h     == Len(low) \div 2
             lower == TimesDigits(SubSeq(low, 1, h), k, carry)
             upper == TimesDigits(SubSeq(low, h + 1, Len(low)), k, lower.carry)
         IN [digits |-> lower.digits \o upper.digits, carry |-> upper.carry]

\* x * k for a Number x and a positive integer k
Times(x, k) ==
    LET product == TimesDigits(Reverse(x.m), k, 0)
    IN RoundToPrecision(Reverse(product.digits \o LowToHigh(product.carry)),
                        x.e, FALSE)

\* Math.round(x) for a Number 0 <= x < 2^(Precision - 1): the integer
\* nearest to x, the upper one of two equally near.
MathRound(x) ==
    LET whole == Precision + x.e
    IN IF whole < 0 THEN 0
       ELSE BitsValue(SubSeq(x.m, 1, whole))
            + (IF whole < Precision THEN x.m[whole + 1] ELSE 0)

\* percent as updateStats computes it when total is not 0
RoundedPercent(completed, total) == MathRound(Times(Divide(completed, total), 100))

\* RoundedPercent(0, total), ..., RoundedPercent(total, total), as a sequence
PercentRow(total) ==
    <<>> \o [i \in 1..(total + 1) |-> RoundedPercent(i - 1, total)]

\* RoundedPercent, computed once: PercentTable[total][completed + 1]
PercentTable == <<>> \o [total \in 1..MaxStatsTasks |-> PercentRow(total)]

\* ------------------------------------------------------------ derived view
\* (mutant) the completed filter falls through to the whole collection
FilterTasksActiveOnly(ts, f) ==
    IF f = "active" THEN SelectSeq(ts, LAMBDA task : ~task.completed) ELSE ts

\* renderTasks, step 1: the tasks the current filter shows
FilterTasks(ts, f) ==
    IF f = "active" THEN SelectSeq(ts, LAMBDA task : ~task.completed)
    ELSE IF f = "completed" THEN SelectSeq(ts, LAMBDA task : task.completed)
    ELSE ts

EmptyState(f) ==
    [cls |-> "empty-state",
     msg |-> IF f = "completed" THEN "No completed tasks yet."
             ELSE IF f = "active" THEN "No pending tasks! Great job."
             ELSE "No tasks yet. Start your journey!"]

\* One <li class="task-item">: what it shows and what its listeners captured.
TaskRow(task) ==
    [cls |-> "task-item", id |-> task.id, completed |-> task.completed,
     text |-> escapeHtml(task.text), date |-> task.createdAt,
     taskText |-> task.text, editing |-> FALSE]

RECURSIVE TaskRows(_)
TaskRows(ts) ==
    IF ts = <<>> THEN <<>> ELSE <<TaskRow(Head(ts))>> \o TaskRows(Tail(ts))

\* renderTasks, steps 2 to 4: the new children of #taskList
RenderedList(ts, f) ==
    LET filteredTasks == FilterTasks(ts, f)
    IN IF filteredTasks = <<>> THEN <<EmptyState(f)>> ELSE TaskRows(filteredTasks)

\* updateStats: the items-left label
ItemsLeft(ts) ==
    LET activeCount == Len(SelectSeq(ts, LAMBDA t : ~t.completed))
    IN [count |-> activeCount, noun |-> IF activeCount = 1 THEN "item" ELSE "items"]

\* updateStats: the completion percentage
Percent(ts) ==
    LET total == Len(ts)
        completed == Len(SelectSeq(ts, LAMBDA t : t.completed))
    IN IF total = 0 THEN 0 ELSE PercentTable[total][completed + 1]

\* (mutant) the statistics are computed over the tasks the filter shows
renderTasksFilteredStats(ts, f) ==
    /\ taskList' = RenderedList(ts, f)
    /\ itemsLeftLabel' = ItemsLeft(FilterTasks(ts, f))
    /\ progress' = Percent(FilterTasks(ts, f))

\* renderTasks() with the collection ts and the filter f in force
renderTasks(ts, f) ==
    /\ taskList' = RenderedList(ts, f)
    /\ itemsLeftLabel' = ItemsLeft(ts)
    /\ progress' = Percent(ts)

\* (mutant) the collection is rendered but not written to storage
renderWithoutSave(ts) ==
    /\ UNCHANGED localStorage
    /\ renderTasks(ts, currentFilter)

\* saveAndRender() with the collection ts in force
saveAndRender(ts) ==
    /\ localStorage' = [localStorage EXCEPT !.orbitTasks = Entry(JSONstringify(ts))]
    /\ renderTasks(ts, currentFilter)

\* ------------------------------------------------------ collection updates
\* (mutant) push in place of unshift: the new task goes last
Push(ts, newTask) == Append(ts, newTask)

\* tasks.unshift(newTask): the array's contents afterwards
Unshift(ts, newTask) == <<newTask>> \o ts

\* (mutant) the task is marked completed instead of flipped
RECURSIVE CompleteMap(_, _)
CompleteMap(ts, id) ==
    IF ts = <<>> THEN <<>>
    ELSE <<IF Head(ts).id = id
           THEN [Head(ts) EXCEPT !.completed = TRUE]
           ELSE Head(ts)>> \o CompleteMap(Tail(ts), id)

\* tasks.map(task => task.id === id ? {...task, completed: !task.completed} : task)
RECURSIVE ToggleMap(_, _)
ToggleMap(ts, id) ==
    IF ts = <<>> THEN <<>>
    ELSE <<IF Head(ts).id = id
           THEN [Head(ts) EXCEPT !.completed = ~Head(ts).completed]
           ELSE Head(ts)>> \o ToggleMap(Tail(ts), id)

\* (mutant) the edited task is built anew, without the spread of the old one
RECURSIVE EditMapRebuilt(_, _, _)
EditMapRebuilt(ts, id, newText) ==
    IF ts = <<>> THEN <<>>
    ELSE <<IF Head(ts).id = id
           THEN [id |-> id, text |-> newText, completed |-> FALSE,
                 createdAt |-> Head(ts).createdAt]
           ELSE Head(ts)>> \o EditMapRebuilt(Tail(ts), id, newText)

\* tasks.map(task => task.id === id ? {...task, text: newText} : task)
RECURSIVE EditMap(_, _, _)
EditMap(ts, id, newText) ==
    IF ts = <<>> THEN <<>>
    ELSE <<IF Head(ts).id = id
           THEN [Head(ts) EXCEPT !.text = newText]
           ELSE Head(ts)>> \o EditMap(Tail(ts), id, newText)

\* (mutant) splice(findIndex(...), 1): an index of -1 removes the last task
DeleteSplice(ts, id) ==
    IF \E i \in DOMAIN ts : ts[i].id = id
    THEN LET at == CHOOSE i \in DOMAIN ts :
                      ts[i].id = id /\ \A j \in 1..(i - 1) : ts[j].id # id
         IN SubSeq(ts, 1, at - 1) \o SubSeq(ts, at + 1, Len(ts))
    ELSE SubSeq(ts, 1, Len(ts) - 1)

\* tasks.filter(task => task.id !== id)
DeleteFilter(ts, id) == SelectSeq(ts, LAMBDA task : task.id # id)

\* (mutant) the completed tasks are the ones kept
ClearFilterInverted(ts) == SelectSeq(ts, LAMBDA task : task.completed)

\* tasks.filter(task => !task.completed)
ClearFilter(ts) == SelectSeq(ts, LAMBDA task : ~task.completed)

\* --------------------------------------------------------- core functions
\* (mutant) addTask without its early return
addTaskUnchecked(v) ==
    /\ Len(tasks) < MaxTasks
    /\ \E now \in {clock, clock + 1} \cap (0..MaxClock) :
         /\ clock' = now
         /\ tasks' = Unshift(tasks, [id |-> now, text |-> trim(v),
                                     completed |-> FALSE,
                                     createdAt |-> toLocaleDateString(now)])
    /\ tasksRef' = tasksRef
    /\ saveAndRender(tasks')
    /\ UNCHANGED <<currentFilter, chrome, phase>>

\* addTask() with v in the task input. The empty input returns at once.
\* Date.now() returns the last reading again or a later one; new Date() reads
\* the clock within the same millisecond. unshift changes the array in
\* place: `tasks` stays bound to the same object.
addTask(v) ==
    LET text == trim(v) IN
    IF text = <<>> THEN UNCHANGED vars
    ELSE /\ Len(tasks) < MaxTasks
         /\ \E now \in {clock, clock + 1} \cap (0..MaxClock) :
              /\ clock' = now
              /\ tasks' = Unshift(tasks, [id |-> now, text |-> text,
                                          completed |-> FALSE,
                                          createdAt |-> toLocaleDateString(now)])
         /\ tasksRef' = tasksRef
         /\ saveAndRender(tasks')
         /\ UNCHANGED <<currentFilter, chrome, phase>>

\* (mutant) the tasks are toggled in the array `tasks` is bound to
toggleTaskInPlace(id) ==
    /\ tasks' = ToggleMap(tasks, id)
    /\ tasksRef' = tasksRef
    /\ saveAndRender(tasks')
    /\ UNCHANGED <<currentFilter, chrome, phase, clock>>

\* toggleTask(id): `tasks` is bound to the array map returns
toggleTask(id) ==
    /\ tasks' = ToggleMap(tasks, id)
    /\ tasksRef' = NewArray(tasksRef)
    /\ saveAndRender(tasks')
    /\ UNCHANGED <<currentFilter, chrome, phase, clock>>

\* deleteTask(id): `tasks` is bound to the array filter returns
deleteTask(id) ==
    /\ tasks' = DeleteFilter(tasks, id)
    /\ tasksRef' = NewArray(tasksRef)
    /\ saveAndRender(tasks')
    /\ UNCHANGED <<currentFilter, chrome, phase, clock>>

\* editTask(id, newText)
editTask(id, newText) ==
    /\ tasks' = EditMap(tasks, id, newText)
    /\ tasksRef' = NewArray(tasksRef)
    /\ saveAndRender(tasks')
    /\ UNCHANGED <<currentFilter, chrome, phase, clock>>

\* clearCompleted()
clearCompleted ==
    /\ tasks' = ClearFilter(tasks)
    /\ tasksRef' = NewArray(tasksRef)
    /\ saveAndRender(tasks')
    /\ UNCHANGED <<currentFilter, chrome, phase, clock>>

\* (mutant) the controls that were active stay active
setThemeKeepingActive(themeName) ==
    /\ bodyTheme' = themeName
    /\ localStorage' = [localStorage EXCEPT !.orbitTheme = Entry(themeName)]
    /\ themeActive' = themeActive \cup {k \in DOMAIN IndexHtml.themeBtns :
                                           IndexHtml.themeBtns[k] = themeName}

\* setTheme(themeName)
setTheme(themeName) ==
    /\ bodyTheme' = themeName
    /\ localStorage' = [localStorage EXCEPT !.orbitTheme = Entry(themeName)]
    /\ themeActive' = {k \in DOMAIN IndexHtml.themeBtns :
                         IndexHtml.themeBtns[k] = themeName}

\* --------------------------------------------------------- inline editing
IsTaskRow(i) == i \in DOMAIN taskList /\ taskList[i].cls = "task-item"

\* The row whose edit input has the focus, if any: a click or a key press
\* elsewhere first takes the focus away, which commits that edit.
EditingRows == {i \in DOMAIN taskList : IsTaskRow(i) /\ taskList[i].editing}

\* enableEditMode(li, id, currentText) on row i
enableEditMode(i) ==
    IF taskList[i].editing THEN UNCHANGED vars
    ELSE /\ taskList' = [taskList EXCEPT ![i].editing = TRUE]
         /\ UNCHANGED <<tasks, tasksRef, currentFilter, localStorage,
                        itemsLeftLabel, progress, chrome, phase, clock>>

\* (mutant) the edit is committed whatever the input holds
saveEditUnchecked(i, v) == editTask(taskList[i].id, trim(v))

\* (mutant) the input is committed as typed, with its outer whitespace
saveEditUntrimmed(i, v) ==
    IF trim(v) # <<>> THEN editTask(taskList[i].id, v)
    ELSE /\ taskList' = [taskList EXCEPT ![i].editing = FALSE]
         /\ UNCHANGED <<tasks, tasksRef, currentFilter, localStorage,
                        itemsLeftLabel, progress, chrome, phase, clock>>

\* saveEdit of row i with v in its edit input
saveEdit(i, v) ==
    LET newText == trim(v) IN
    IF newText # <<>> THEN editTask(taskList[i].id, newText)
    ELSE /\ taskList' = [taskList EXCEPT ![i].editing = FALSE]
         /\ UNCHANGED <<tasks, tasksRef, currentFilter, localStorage,
                        itemsLeftLabel, progress, chrome, phase, clock>>

\* ---------------------------------------------------------------- handlers
\* The page is loaded (again): the script runs from its first line.
ScriptLoad ==
    /\ tasks' = <<>>
    /\ tasksRef' = NewArray(tasksRef)
    /\ currentFilter' = "all"
    /\ taskList' = IndexHtml.taskList
    /\ itemsLeftLabel' = IndexHtml.itemsLeftLabel
    /\ progress' = IndexHtml.progress
    /\ bodyTheme' = IndexHtml.bodyTheme
    /\ themeActive' = IndexHtml.themeActive
    /\ filterActive' = IndexHtml.filterActive
    /\ phase' = "loading"
    /\ UNCHANGED <<localStorage, clock>>

\* What the DOMContentLoaded handler leaves in `tasks`, given the storage.
LoadTasks(storage, current) ==
    IF storage.orbitTasks.present /\ storage.orbitTasks.value # <<>>
    THEN JSONparse(storage.orbitTasks.value)
    ELSE current

DOMContentLoaded ==
    /\ phase = "loading"
    /\ phase' = "ready"
    /\ setTheme(IF localStorage.orbitTheme.present /\ localStorage.orbitTheme.value # ""
                THEN localStorage.orbitTheme.value ELSE "ocean")
    /\ tasks' = LoadTasks(localStorage, tasks)
    /\ tasksRef' = IF localStorage.orbitTasks.present /\ localStorage.orbitTasks.value # <<>>
                   THEN NewArray(tasksRef) ELSE tasksRef
    /\ renderTasks(tasks', currentFilter)
    /\ UNCHANGED <<currentFilter, filterActive, clock>>

\* A click on the add button, or Enter in the task input: both call addTask.
AddRequested(v) == addTask(v)

CheckboxChange(i) == IsTaskRow(i) /\ toggleTask(taskList[i].id)

DeleteBtnClick(i) == IsTaskRow(i) /\ deleteTask(taskList[i].id)

EditBtnClick(i) == IsTaskRow(i) /\ EditingRows \subseteq {i} /\ enableEditMode(i)

\* Enter in the edit input of row i, or that input losing the focus: both
\* call saveEdit.
EditCommitted(i, v) == i \in EditingRows /\ saveEdit(i, v)

ClearCompletedClick == clearCompleted

\* (mutant) the filter changes and the list is not rendered again
FilterBtnClickNoRender(f) ==
    /\ filterActive' = {f}
    /\ currentFilter' = f
    /\ UNCHANGED <<tasks, tasksRef, localStorage, dom, bodyTheme, themeActive, phase, clock>>

FilterBtnClick(f) ==
    /\ filterActive' = {f}
    /\ currentFilter' = f
    /\ renderTasks(tasks, f)
    /\ UNCHANGED <<tasks, tasksRef, localStorage, bodyTheme, themeActive, phase, clock>>

ThemeBtnClick(k) ==
    /\ setTheme(IndexHtml.themeBtns[k])
    /\ UNCHANGED <<tasks, tasksRef, currentFilter, dom, filterActive, phase, clock>>

\* ----------------------------------------------------------- specification
\* The first visit: the script has just run and nothing is stored yet.
Init ==
    /\ tasks = <<>>
    /\ tasksRef = "array1"
    /\ currentFilter = "all"
    /\ localStorage = [orbitTasks |-> NoEntry(<<>>), orbitTheme |-> NoEntry("")]
    /\ taskList = IndexHtml.taskList
    /\ itemsLeftLabel = IndexHtml.itemsLeftLabel
    /\ progress = IndexHtml.progress
    /\ bodyTheme = IndexHtml.bodyTheme
    /\ themeActive = IndexHtml.themeActive
    /\ filterActive = IndexHtml.filterActive
    /\ phase = "loading"
    /\ clock = 0

Next ==
    \/ ScriptLoad
    \/ DOMContentLoaded
    \/ \E v \in Inputs : AddRequested(v)
    \/ \E i \in DOMAIN taskList : CheckboxChange(i)
    \/ \E i \in DOMAIN taskList : DeleteBtnClick(i)
    \/ \E i \in DOMAIN taskList : EditBtnClick(i)
    \/ \E i \in DOMAIN taskList, v \in Inputs : EditCommitted(i, v)
    \/ ClearCompletedClick
    \/ \E f \in Filters : FilterBtnClick(f)
    \/ \E k \in DOMAIN IndexHtml.themeBtns : ThemeBtnClick(k)

Spec == Init /\ [][Next]_vars

\* ----------------------------------------------- statistics, specification
\* A collection of `total` tasks with different ids, the newest first, of
\* which the first `completed` are completed.
StatsTasks(completed, total) ==
    <<>> \o [i \in 1..total |->
                [id |-> total - i, text |-> <<"a">>, completed |-> i <= completed,
                 createdAt |-> toLocaleDateString(total - i)]]

\* The page after a startup that found such a collection stored, and no theme.
StatsInit ==
    \E total \in 0..MaxStatsTasks :
        \E completed \in 0..total :
            /\ tasks = StatsTasks(completed, total)
            /\ tasksRef = "array2"
            /\ currentFilter = "all"
            /\ localStorage = [orbitTasks |-> Entry(JSONstringify(tasks)),
                               orbitTheme |-> Entry("ocean")]
            /\ taskList = RenderedList(tasks, "all")
            /\ itemsLeftLabel = ItemsLeft(tasks)
            /\ progress = Percent(tasks)
            /\ bodyTheme = "ocean"
            /\ themeActive = {k \in DOMAIN IndexHtml.themeBtns :
                                IndexHtml.themeBtns[k] = "ocean"}
            /\ filterActive = IndexHtml.filterActive
            /\ phase = "ready"
            /\ clock = total

\* The statistics are computed again with every change of the filter.
StatsNext == \E f \in Filters : FilterBtnClick(f)

StatsSpec == StatsInit /\ [][StatsNext]_vars

\* --------------------------------------------------- themes, specification
\* The theme names an earlier visit may have left in storage: those of the
\* selectors, and one that no selector of this page carries.
StoredThemes == {IndexHtml.themeBtns[k] : k \in DOMAIN IndexHtml.themeBtns} \cup {"forest"}

\* The script has just run; storage holds no tasks and any theme entry.
ThemeInit ==
    /\ tasks = <<>>
    /\ tasksRef = "array1"
    /\ currentFilter = "all"
    /\ \E entry \in {NoEntry("")} \cup {Entry(name) : name \in StoredThemes} :
           localStorage = [orbitTasks |-> NoEntry(<<>>), orbitTheme |-> entry]
    /\ taskList = IndexHtml.taskList
    /\ itemsLeftLabel = IndexHtml.itemsLeftLabel
    /\ progress = IndexHtml.progress
    /\ bodyTheme = IndexHtml.bodyTheme
    /\ themeActive = IndexHtml.themeActive
    /\ filterActive = IndexHtml.filterActive
    /\ phase = "loading"
    /\ clock = 0

ThemeSpec == ThemeInit /\ [][Next]_vars

\* ------------------------------------------------------------------ claims
\* A text that is empty or holds blanks only.
IsBlank(s) == \A k \in DOMAIN s : s[k] = " "

\* C1: an add whose trimmed input s is not empty grows the collection by
\* exactly one task; the new task is first, with text s and completed = false,
\* and the tasks that were there follow it unchanged, in their order.
C1_AddPrepends ==
    [][\A v \in Inputs :
         (~IsBlank(v) /\ AddRequested(v)) =>
            /\ Len(tasks') = Len(tasks) + 1
            /\ tasks'[1].text = trim(v)
            /\ tasks'[1].completed = FALSE
            /\ Tail(tasks') = tasks]_vars

\* A new task has been put before an older, completed one.
C1_Witness ==
    /\ Len(tasks) = 2
    /\ ~tasks[1].completed
    /\ tasks[2].completed

\* C2: no two tasks of the collection have the same id.
C2_UniqueIds ==
    \A i, j \in DOMAIN tasks : i # j => tasks[i].id # tasks[j].id

\* C3: once startup has hydrated the collection, at the end of every handler
\* the orbitTasks entry is the serialization of the whole in-memory
\* collection; no entry counts as the empty collection.
C3_PersistedIsCollection ==
    phase = "ready" =>
        IF localStorage.orbitTasks.present
        THEN localStorage.orbitTasks.value = JSONstringify(tasks)
        ELSE tasks = <<>>

\* Two tasks, one of them completed, are in memory and persisted.
C3_Witness ==
    /\ phase = "ready"
    /\ localStorage.orbitTasks.present
    /\ Len(tasks) = 2
    /\ tasks[1].completed
    /\ ~tasks[2].completed

\* C4: a reload after startup has completed leaves the script with an empty
\* collection and the entries as they were, and what startup then loads from
\* them is the collection as it was before the reload: the same tasks in the
\* same order, with the same id, text, completed and createdAt.
C4_ReloadRoundTrip ==
    [][(phase = "ready" /\ ScriptLoad) =>
          /\ tasks' = <<>>
          /\ LoadTasks(localStorage', tasks') = tasks]_vars

\* The page has just been loaded again over a stored collection of two tasks,
\* one completed, one with characters that JSON escapes.
C4_Witness ==
    /\ phase = "loading"
    /\ tasks = <<>>
    /\ localStorage.orbitTasks.present
    /\ Len(JSONparse(localStorage.orbitTasks.value)) = 2
    /\ \E i \in 1..2 : JSONparse(localStorage.orbitTasks.value)[i].completed
    /\ \E i \in 1..2 : JSONparse(localStorage.orbitTasks.value)[i].text = <<"\"", " ", "\\">>

\* The contents, after a step, of the array `tasks` was bound to before it.
PreviousArrayAfterStep == IF tasksRef' = tasksRef THEN tasks' ELSE tasks

\* C5 (as claimed): a reference to the collection taken before a handler runs
\* has the same contents afterwards; no handler changes the array in place.
C5_SnapshotNeverChanges == [][PreviousArrayAfterStep = tasks]_vars

\* C5 (amended): only add changes the array in place, and it only puts the
\* new task in front; toggle, edit, remove and clearCompleted bind `tasks` to
\* a new array and leave the previous one as it was.
C5_OnlyAddChangesInPlace ==
    [][PreviousArrayAfterStep # tasks =>
          /\ \E v \in Inputs : addTask(v)
          /\ Tail(PreviousArrayAfterStep) = tasks]_vars

\* An add has followed an add and a toggle.
C5_Witness ==
    /\ phase = "ready"
    /\ Len(tasks) = 2
    /\ ~tasks[1].completed
    /\ tasks[2].completed
    /\ currentFilter = "all"

\* C6: no task's text is empty or blanks only.
C6_TextNeverBlank == \A i \in DOMAIN tasks : ~IsBlank(tasks[i].text)

\* Both texts a user can give are in the collection.
C6_Witness ==
    /\ Len(tasks) = 2
    /\ tasks[1].text # tasks[2].text

\* C7: committing an edit whose input is empty or blanks only leaves the
\* collection and its persisted copy as they were, and the row shows the
\* task's text again.
C7_BlankEditAbandoned ==
    [][\A i \in DOMAIN taskList, v \in Inputs :
         (IsBlank(v) /\ EditCommitted(i, v)) =>
            /\ tasks' = tasks
            /\ localStorage' = localStorage
            /\ taskList' = [taskList EXCEPT ![i].editing = FALSE]]_vars

\* A row of an existing task is being edited.
C7_Witness ==
    \E i \in EditingRows : \E k \in DOMAIN tasks : tasks[k].id = taskList[i].id

\* C8: an add whose input is empty or blanks only leaves the collection, the
\* orbitTasks entry and the rendered list and stats as they were.
C8_BlankAddIgnored ==
    [][\A v \in Inputs :
         (IsBlank(v) /\ AddRequested(v)) =>
            UNCHANGED <<tasks, localStorage, taskList, itemsLeftLabel, progress>>]_vars

\* A persisted, rendered collection of one task, where a further add is possible.
C8_Witness ==
    /\ phase = "ready"
    /\ Len(tasks) = 1
    /\ Len(tasks) < MaxTasks
    /\ localStorage.orbitTasks.present
    /\ IsTaskRow(1)

\* C9: deleting a row removes exactly one task, the one of that row, and a
\* second remove of its id changes nothing.
C9_RemoveExactlyOne ==
    [][\A i \in DOMAIN taskList :
         DeleteBtnClick(i) =>
            /\ Len(tasks') = Len(tasks) - 1
            /\ DeleteFilter(tasks', taskList[i].id) = tasks']_vars

\* The ids a toggle, remove or edit can be asked for, present or not.
Ids == 0..(MaxClock + 1)

\* C10: for every id, present in the collection or not, what toggle makes of
\* the collection and then makes of the result is the collection again.
C10_ToggleInvolution ==
    \A id \in Ids : ToggleMap(ToggleMap(tasks, id), id) = tasks

\* A task has been completed while only the active tasks are shown.
C10_Witness ==
    /\ currentFilter = "active"
    /\ \E i \in DOMAIN tasks : tasks[i].completed
    /\ \E i \in DOMAIN tasks : ~tasks[i].completed

\* The position in ts of the k-th task, counted from the front, whose
\* completed flag is `flag`.
KthWith(ts, flag, k) ==
    CHOOSE i \in DOMAIN ts :
        /\ ts[i].completed = flag
        /\ Cardinality({j \in 1..i : ts[j].completed = flag}) = k

\* r holds exactly the tasks of ts whose completed flag is `flag`, each once,
\* in the order they have in ts.
IsSubsequenceWith(r, ts, flag) ==
    /\ Len(r) = Cardinality({i \in DOMAIN ts : ts[i].completed = flag})
    /\ \A k \in DOMAIN r : r[k] = ts[KthWith(ts, flag, k)]

\* C11: what clearCompleted makes of the collection is exactly its tasks that
\* are not completed, in their order, and clearCompleted makes nothing else
\* of that result.
C11_ClearCompleted ==
    /\ IsSubsequenceWith(ClearFilter(tasks), tasks, FALSE)
    /\ ClearFilter(ClearFilter(tasks)) = ClearFilter(tasks)

\* A completed task stands before one that is not, under the completed filter.
C11_Witness ==
    /\ currentFilter = "completed"
    /\ Len(tasks) = 2
    /\ tasks[1].completed
    /\ ~tasks[2].completed

\* C12: toggle, remove and edit asked for an id that no task has make the
\* collection again, whatever the new text.
C12_AbsentIdNoOp ==
    \A id \in Ids :
        (\A i \in DOMAIN tasks : tasks[i].id # id) =>
            /\ ToggleMap(tasks, id) = tasks
            /\ DeleteFilter(tasks, id) = tasks
            /\ \A v \in Inputs : EditMap(tasks, id, trim(v)) = tasks

\* Two tasks with different ids, one completed, while other ids are unused.
C12_Witness ==
    /\ Len(tasks) = 2
    /\ tasks[1].id # tasks[2].id
    /\ tasks[2].completed
    /\ \E id \in Ids : \A i \in DOMAIN tasks : tasks[i].id # id

\* C13: the active view and the completed view hold, between them, every
\* task exactly once, each in the collection's order, and the all view is the
\* collection.
C13_FilterPartition ==
    /\ IsSubsequenceWith(FilterTasks(tasks, "active"), tasks, FALSE)
    /\ IsSubsequenceWith(FilterTasks(tasks, "completed"), tasks, TRUE)
    /\ Len(FilterTasks(tasks, "active")) + Len(FilterTasks(tasks, "completed")) = Len(tasks)
    /\ FilterTasks(tasks, "all") = tasks

\* The active view is shown and holds one of two tasks.
C13_Witness ==
    /\ currentFilter = "active"
    /\ Len(tasks) = 2
    /\ Len(taskList) = 1
    /\ IsTaskRow(1)

\* The integer nearest to 100 * completed / total, the upper one of two
\* equally near.
NearestPercent(completed, total) ==
    CHOOSE p \in 0..100 :
        /\ 2 * total * p - total <= 200 * completed
        /\ 200 * completed < 2 * total * p + total

\* C14: the percentage shown is 0 for the empty collection, 100 when every
\* task is completed, and otherwise the integer nearest to 100 * completed /
\* total, halves upwards; it lies in 0..100; the items left are the tasks
\* not completed, and the noun is 'item' exactly for one.
C14_Stats ==
    LET total     == Len(tasks)
        completed == Cardinality({i \in DOMAIN tasks : tasks[i].completed})
    IN /\ progress = (IF total = 0 THEN 0
                      ELSE IF completed = total THEN 100
                      ELSE NearestPercent(completed, total))
       /\ progress \in 0..100
       /\ itemsLeftLabel.count = total - completed
       /\ (itemsLeftLabel.noun = "item") = (itemsLeftLabel.count = 1)
       /\ itemsLeftLabel.noun \in {"item", "items"}

\* The selectors that carry the theme `name`.
SelectorsOf(name) ==
    {k \in DOMAIN IndexHtml.themeBtns : IndexHtml.themeBtns[k] = name}

\* C15 as claimed: once setTheme has run, exactly one selector is active and
\* the stored theme is the theme marker.
C15_ExactlyOneActive ==
    bodyTheme # IndexHtml.bodyTheme =>
        /\ Cardinality(themeActive) = 1
        /\ localStorage.orbitTheme = Entry(bodyTheme)

\* C15: once setTheme has run, the active selectors are those that carry the
\* theme marker, one when a selector carries it and none otherwise, and the
\* stored theme is the theme marker.
C15_ActiveMatchesTheme ==
    bodyTheme # IndexHtml.bodyTheme =>
        /\ themeActive = SelectorsOf(bodyTheme)
        /\ Cardinality(themeActive) = (IF SelectorsOf(bodyTheme) = {} THEN 0 ELSE 1)
        /\ localStorage.orbitTheme = Entry(bodyTheme)

\* Startup has read a theme no selector carries, and a task was added since.
C15_Witness ==
    /\ phase = "ready"
    /\ bodyTheme = "forest"
    /\ themeActive = {}
    /\ localStorage.orbitTheme = Entry("forest")
    /\ tasks # <<>>

\* The positions of the tasks that the filter f shows.
Shown(f) ==
    {i \in DOMAIN tasks : \/ f = "all"
                          \/ f = "active" /\ ~tasks[i].completed
                          \/ f = "completed" /\ tasks[i].completed}

\* The k-th smallest member of the set S of positions.
KthOf(S, k) == CHOOSE i \in S : Cardinality({j \in S : j <= i}) = k

\* C16: once startup is over, the list shows one row for each task the
\* current filter shows, in the collection's order, with that task's id,
\* text, date and completed flag; or, when the filter shows no task, the one
\* message of that filter, which is the message of no other filter.
C16_ListIsFilteredCollection ==
    phase = "ready" =>
        IF Shown(currentFilter) = {}
        THEN /\ Len(taskList) = 1
             /\ taskList[1].cls = "empty-state"
             /\ \A f \in Filters : (taskList[1] = EmptyState(f)) = (f = currentFilter)
        ELSE /\ Len(taskList) = Cardinality(Shown(currentFilter))
             /\ \A k \in DOMAIN taskList :
                    LET task == tasks[KthOf(Shown(currentFilter), k)]
                    IN /\ taskList[k].cls = "task-item"
                       /\ taskList[k].id = task.id
                       /\ taskList[k].taskText = task.text
                       /\ taskList[k].text = escapeHtml(task.text)
                       /\ taskList[k].date = task.createdAt
                       /\ taskList[k].completed = task.completed

\* The completed filter is in force and the only task is not completed.
C16_Witness ==
    /\ phase = "ready"
    /\ currentFilter = "completed"
    /\ Len(tasks) = 1
    /\ ~tasks[1].completed
    /\ taskList = <<EmptyState("completed")>>

\* What a commit of row i with v in its input has to bring about.
CommitOutcome(i, v) ==
    /\ i \in DOMAIN taskList'
    /\ taskList'[i].cls = "task-item"
    /\ ~taskList'[i].editing
    /\ taskList'[i].id = taskList[i].id
    /\ IF IsBlank(v)
       THEN /\ taskList' = [taskList EXCEPT ![i].editing = FALSE]
            /\ UNCHANGED <<tasks, tasksRef, localStorage, itemsLeftLabel, progress>>
       ELSE /\ tasks' = EditMap(tasks, taskList[i].id, trim(v))
            /\ taskList'[i].taskText = trim(v)
            /\ taskList'[i].text = escapeHtml(trim(v))

\* C17: a commit (Enter or blur) on a row in Editing leaves that row in
\* Viewing: with text in the input it is edit(id, trimmed input) and the row
\* shows that text, with a blank input the row is as it was before the edit
\* began and neither the collection nor storage changes; and the request to
\* edit a row that is in Editing changes nothing.
C17_EditCycle ==
    [][/\ \A i \in DOMAIN taskList : \A v \in Inputs :
              EditCommitted(i, v) => CommitOutcome(i, v)
       /\ \A i \in DOMAIN taskList :
              (EditBtnClick(i) /\ taskList[i].editing) => UNCHANGED vars]_vars

\* The second of two rows is in Editing, after startup.
C17_Witness ==
    /\ phase = "ready"
    /\ Len(taskList) = 2
    /\ EditingRows = {2}

\* The id and creation date of a task.
Origin(task) == [id |-> task.id, createdAt |-> task.createdAt]

\* Between two renderings of one page load, the tasks keep their ids and
\* creation dates: a step that keeps the length keeps them position by
\* position, an add keeps them behind the new task, and a step that
\* shortens the collection leaves tasks that were in it, in their order.
OriginsKept ==
    phase' = phase =>
        IF Len(tasks') = Len(tasks)
        THEN \A j \in DOMAIN tasks : Origin(tasks'[j]) = Origin(tasks[j])
        ELSE IF Len(tasks') = Len(tasks) + 1
        THEN \A j \in DOMAIN tasks : Origin(tasks'[j + 1]) = Origin(tasks[j])
        ELSE /\ Len(tasks') < Len(tasks)
             /\ \A j \in DOMAIN tasks' :
                    \E k \in j..Len(tasks) : Origin(tasks[k]) = Origin(tasks'[j])

\* C18: no step changes the id or the creation date of a task; toggle(id)
\* flips the completed flag of the tasks with that id and edit(id, text) sets
\* their text, and each leaves every other field, every other task, and the
\* order of the collection as they were.
C18_ToggleAndEditFrame ==
    [][/\ OriginsKept
       /\ \A i \in DOMAIN taskList :
              CheckboxChange(i) =>
                  /\ Len(tasks') = Len(tasks)
                  /\ \A j \in DOMAIN tasks :
                         tasks'[j] = IF tasks[j].id = taskList[i].id
                                     THEN [tasks[j] EXCEPT !.completed = ~tasks[j].completed]
                                     ELSE tasks[j]
       /\ \A i \in DOMAIN taskList : \A v \in Inputs :
              (EditCommitted(i, v) /\ ~IsBlank(v)) =>
                  /\ Len(tasks') = Len(tasks)
                  /\ \A j \in DOMAIN tasks :
                         tasks'[j] = IF tasks[j].id = taskList[i].id
                                     THEN [tasks[j] EXCEPT !.text = trim(v)]
                                     ELSE tasks[j]]_vars

\* Two tasks with different ids and texts, the first of them completed.
C18_Witness ==
    /\ phase = "ready"
    /\ Len(tasks) = 2
    /\ tasks[1].id # tasks[2].id
    /\ tasks[1].text # tasks[2].text
    /\ tasks[1].completed
    /\ ~tasks[2].completed

\* The collection that storage holds.
StoredTasks(storage) ==
    IF storage.orbitTasks.present THEN JSONparse(storage.orbitTasks.value) ELSE <<>>

HasId(ts, id) == \E j \in DOMAIN ts : ts[j].id = id

\* C19: a stored task stays stored, and is in the collection once startup is
\* over, unless the step is the removal of its id or a clearCompleted that
\* finds it completed.
C19_StoredTasksSurvive ==
    [][\A j \in DOMAIN StoredTasks(localStorage) :
           LET task == StoredTasks(localStorage)[j]
           IN \/ /\ HasId(StoredTasks(localStorage'), task.id)
                 /\ phase' = "ready" => HasId(tasks', task.id)
              \/ \E i \in DOMAIN taskList :
                     DeleteBtnClick(i) /\ taskList[i].id = task.id
              \/ ClearCompletedClick /\ task.completed]_vars

\* C20: a change of the filter leaves the collection and storage as they
\* were and shows the statistics of the whole collection, which once startup
\* is over are the statistics shown before; the script starts with the
\* filter all whatever the filter was, and the hydration that follows
\* neither changes the filter nor finds one stored.
C20_FilterChangesOnlyTheView ==
    [][/\ \A f \in Filters :
              FilterBtnClick(f) =>
                  /\ UNCHANGED <<tasks, tasksRef, localStorage>>
                  /\ itemsLeftLabel'.count =
                         Cardinality({i \in DOMAIN tasks : ~tasks[i].completed})
                  /\ progress' = Percent(tasks)
                  /\ phase = "ready" => UNCHANGED <<itemsLeftLabel, progress>>
                  /\ currentFilter' = f
       /\ ScriptLoad => currentFilter' = "all" /\ UNCHANGED localStorage
       /\ DOMContentLoaded => UNCHANGED currentFilter
       /\ DOMAIN localStorage' = {"orbitTasks", "orbitTheme"}]_vars

\* The completed filter shows one of two tasks; the statistics are those of
\* both.
C20_Witness ==
    /\ phase = "ready"
    /\ currentFilter = "completed"
    /\ filterActive = {"completed"}
    /\ Len(tasks) = 2
    /\ Len(taskList) = 1
    /\ IsTaskRow(1)
    /\ itemsLeftLabel = [count |-> 1, noun |-> "item"]
    /\ progress = 50

====
